---- MODULE Spec2Model ----
(***************************************************************************)
(* A model of the wheel-of-fortune equip module (src/src/equiper.ts):      *)
(* characterStrip, itemsArgSort / fortuneItemsSort, canUnlock and the      *)
(* two-pass transaction fortuneWheelEquip.  One behaviour of the model is  *)
(* one call of one exported function (variable "call") on inputs drawn     *)
(* from the bounded sets below.                                            *)
(***************************************************************************)
EXTENDS Integers, Sequences, FiniteSets, TLC

VARIABLES
    call,                 \* which function the caller invokes
    pc,                   \* position inside the call
    character,            \* the Character argument
    stripLevel,           \* the stripLevel argument
    appearance,           \* character.Appearance, the worn items in order
    appearance0,          \* character.Appearance when the call started
    afterStrip,           \* character.Appearance when characterStrip returned
    itemList,             \* the itemList argument
    workList,             \* the working list (itemList, or preRunCallback's result)
    preRunCallback,       \* the preRunCallback argument
    permissions,          \* the character's answers to the inventory checks
    idx,                  \* loop index of the running pass
    equipFailureRecord,   \* equipFailureRecord (line 218)
    equipCallbackOutputs, \* equipCallbackOutputs (line 219)
    events,               \* the calls made on the collaborators, in order
    sortRecord,           \* what itemsArgSort returned
    engine,               \* the argument order the engine's sort gives comparefn
    unlockResult          \* what canUnlock returned

vars == <<call, pc, character, stripLevel, appearance, appearance0, afterStrip,
          itemList, workList, preRunCallback, permissions, idx,
          equipFailureRecord, equipCallbackOutputs, events, sortRecord, engine,
          unlockResult>>

----------------------------------------------------------------------------
(* Bounds of the model *)

MaxWorn == 3
MaxSortLen == 3
MaxList == 2

----------------------------------------------------------------------------
(* The asset catalogue the module reads through AssetGet: groups and assets *)

Range(s) == {s[k] : k \in DOMAIN s}

SetMax(S) == CHOOSE m \in S : \A x \in S : x <= m

\* StripLevel, lines 13-24
StripLevelNONE == 0
StripLevelCLOTHES == 1
StripLevelUNDERWEAR == 2
StripLevelCOSPLAY == 3
StripLevelALL == 4

\* asset.Group: Category, AllowNone, Underwear
AssetGroup ==
    [Cloth      |-> [Category |-> "Appearance", AllowNone |-> TRUE,  Underwear |-> FALSE],
     Bra        |-> [Category |-> "Appearance", AllowNone |-> TRUE,  Underwear |-> TRUE],
     TailStraps |-> [Category |-> "Appearance", AllowNone |-> TRUE,  Underwear |-> FALSE],
     Eyes       |-> [Category |-> "Appearance", AllowNone |-> FALSE, Underwear |-> FALSE],
     ItemHead   |-> [Category |-> "Item",       AllowNone |-> TRUE,  Underwear |-> FALSE],
     ItemMouth  |-> [Category |-> "Item",       AllowNone |-> TRUE,  Underwear |-> FALSE],
     ItemArms   |-> [Category |-> "Item",       AllowNone |-> TRUE,  Underwear |-> FALSE],
     ItemHands  |-> [Category |-> "Item",       AllowNone |-> TRUE,  Underwear |-> FALSE]]

GroupNames == DOMAIN AssetGroup

\* The assets: Block is asset.Block, TypeBlock the Block of the baseline
\* property of the asset's one extended type ("Strict").
Assets ==
    { [Group |-> "Cloth", Name |-> "Dress", Description |-> "Dress",
       BodyCosplay |-> FALSE, Block |-> <<>>, TypeBlock |-> <<>>],
      [Group |-> "Bra", Name |-> "Bra1", Description |-> "Bra",
       BodyCosplay |-> FALSE, Block |-> <<>>, TypeBlock |-> <<>>],
      [Group |-> "TailStraps", Name |-> "FoxTail", Description |-> "Fox Tail",
       BodyCosplay |-> TRUE, Block |-> <<>>, TypeBlock |-> <<>>],
      [Group |-> "Eyes", Name |-> "Eyes1", Description |-> "Eyes",
       BodyCosplay |-> FALSE, Block |-> <<>>, TypeBlock |-> <<>>],
      [Group |-> "ItemHead", Name |-> "Hood", Description |-> "Hood",
       BodyCosplay |-> FALSE, Block |-> <<"ItemMouth", "ItemArms">>, TypeBlock |-> <<>>],
      [Group |-> "ItemMouth", Name |-> "Gag", Description |-> "Gag",
       BodyCosplay |-> FALSE, Block |-> <<"ItemHands">>, TypeBlock |-> <<>>],
      [Group |-> "ItemArms", Name |-> "Cuffs", Description |-> "Cuffs",
       BodyCosplay |-> FALSE, Block |-> <<>>, TypeBlock |-> <<"ItemHands">>],
      [Group |-> "ItemHands", Name |-> "Cuffs", Description |-> "Cuffs",
       BodyCosplay |-> FALSE, Block |-> <<"ItemArms">>, TypeBlock |-> <<>>],
      [Group |-> "ItemHands", Name |-> "Mitts", Description |-> "Mitts",
       BodyCosplay |-> FALSE, Block |-> <<>>, TypeBlock |-> <<>>] }

\* The value AssetGet gives for an asset that does not exist (null)
NoAsset == [Group |-> "", Name |-> "", Description |-> "",
            BodyCosplay |-> FALSE, Block |-> <<>>, TypeBlock |-> <<>>]

\* AssetGet(character.AssetFamily, Group, Name)
AssetGet(Group, Name) ==
    IF \E a \in Assets : a.Group = Group /\ a.Name = Name
    THEN CHOOSE a \in Assets : a.Group = Group /\ a.Name = Name
    ELSE NoAsset

----------------------------------------------------------------------------
(* Worn items and characters *)

\* A worn Item: Lock is InventoryItemHasEffect(item, "Lock"), CraftProperty is
\* item.Craft?.Property, LockedBy the lock InventoryGetLock finds ("none": no lock);
\* Property is <<>> while item.Property is null or undefined, else <<bag>>
WornItem(group, name, lock, craft, lockedBy) ==
    [Group |-> group, Name |-> name, Lock |-> lock, CraftProperty |-> craft,
     LockedBy |-> lockedBy, Property |-> <<>>]

\* InventoryGet's null
NoItem == WornItem("", "", FALSE, "none", "none")

\* the lock assets: OwnerOnly and LoverOnly
LockAsset ==
    [PlainLock |-> [OwnerOnly |-> FALSE, LoverOnly |-> FALSE],
     OwnerLock |-> [OwnerOnly |-> TRUE,  LoverOnly |-> FALSE],
     LoverLock |-> [OwnerOnly |-> FALSE, LoverOnly |-> TRUE]]

\* Character: kind is "player" (IsPlayer), "simple" (IsSimple), "online"
\* (neither) or "null"; settings is OnlineSharedSettings: "absent", or present
\* with BlockBodyCosplay "unset", "block" (true) or "allow" (false)
Character(kind, settings) == [kind |-> kind, settings |-> settings]

\* character.IsPlayer() taken to hold of every character that passes line 70
IsPlayer_OrSimple(c) == c.kind \in {"player", "simple"}

IsPlayer(c) == c.kind = "player"
IsSimple(c) == c.kind = "simple"

----------------------------------------------------------------------------
(* Strip policy: getStripCondition and characterStrip *)

\* character.OnlineSharedSettings?.BlockBodyCosplay ?? false: the default inverted
BlockBodyCosplay_DefaultAllow(c) == c.settings = "block"

\* character.OnlineSharedSettings?.BlockBodyCosplay ?? true, lines 47 and 53
BlockBodyCosplay(c) == c.settings # "allow"

\* the default branch of the switch throws, lines 57-59
ValidStripLevel(level) ==
    level \in {StripLevelNONE, StripLevelCLOTHES, StripLevelUNDERWEAR,
               StripLevelCOSPLAY, StripLevelALL}

\* getStripCondition with the Clothes level missing its !asset.Group.Underwear
\* conjunct, so that Clothes strips like Underwear
getStripCondition_ClothesTakesUnderwear(level, c, asset) ==
    LET group == AssetGroup[asset.Group] IN
    CASE level = StripLevelNONE -> FALSE
      [] level \in {StripLevelCLOTHES, StripLevelUNDERWEAR} ->
            group.AllowNone /\ ~asset.BodyCosplay
      [] level \in {StripLevelCOSPLAY, StripLevelALL} ->
            IF BlockBodyCosplay(c)
            THEN group.AllowNone /\ ~asset.BodyCosplay
            ELSE level = StripLevelALL \/ group.AllowNone

\* getStripCondition(stripLevel, character)(asset), lines 34-61
getStripCondition(level, c, asset) ==
    LET group == AssetGroup[asset.Group] IN
    CASE level = StripLevelNONE -> FALSE
      [] level = StripLevelCLOTHES ->
            group.AllowNone /\ ~asset.BodyCosplay /\ ~group.Underwear
      [] level = StripLevelUNDERWEAR ->
            group.AllowNone /\ ~asset.BodyCosplay
      [] level = StripLevelCOSPLAY ->
            IF BlockBodyCosplay(c)
            THEN group.AllowNone /\ ~asset.BodyCosplay
            ELSE group.AllowNone
      [] level = StripLevelALL ->
            IF BlockBodyCosplay(c)
            THEN group.AllowNone /\ ~asset.BodyCosplay
            ELSE TRUE

\* appearance.splice(i, 1)
Splice(seq, i) == [k \in 1..(Len(seq) - 1) |-> IF k < i THEN seq[k] ELSE seq[k + 1]]

\* the condition of lines 78-82 on appearance[i]
StripsItem(level, c, item) ==
    LET asset == AssetGet(item.Group, item.Name) IN
    /\ AssetGroup[asset.Group].AllowNone
    /\ AssetGroup[asset.Group].Category = "Appearance"
    /\ getStripCondition(level, c, asset)

\* the loop of lines 76-85, from index i (1-based) down to the first entry
RECURSIVE StripFrom(_, _, _, _)
StripFrom(level, c, worn, i) ==
    IF i < 1 THEN worn
    ELSE IF StripsItem(level, c, worn[i])
         THEN StripFrom(level, c, Splice(worn, i), i - 1)
         ELSE StripFrom(level, c, worn, i - 1)

\* the check of lines 70-72 without the IsSimple / IsPlayer test
ValidCharacter_NotNull(c) == c.kind # "null"

\* the check of lines 70-72
ValidCharacter(c) == c.kind # "null" /\ (IsSimple(c) \/ IsPlayer(c))

\* characterStrip throws: line 71, or line 58 through line 74
characterStripThrows(level, c) == ~ValidCharacter(c) \/ ~ValidStripLevel(level)

\* the loop of lines 76-85 run forward: after a splice at i the next index
\* read is i + 1, so the entry that moved into i is passed over
RECURSIVE StripForward(_, _, _, _)
StripForward(level, c, worn, i) ==
    IF i > Len(worn) THEN worn
    ELSE IF StripsItem(level, c, worn[i])
         THEN StripForward(level, c, Splice(worn, i), i + 1)
         ELSE StripForward(level, c, worn, i + 1)

\* characterStrip with that forward loop
characterStrip_Forward(level, c, worn) == StripForward(level, c, worn, 1)

\* characterStrip(stripLevel, character): the Appearance it leaves, lines 69-86
characterStrip(level, c, worn) == StripFrom(level, c, worn, Len(worn))

----------------------------------------------------------------------------
(* Item descriptors (FortuneWheelItem / SimpleItem) *)

\* Type is "null" or the name of an extended type; Equip is "absent" (no
\* callback) or what the Equip callback returns, "true" or "false"; Property
\* is the declared property bag, a set of <<key, value>> pairs, here empty
Item(group, name, type, equip) ==
    [Group |-> group, Name |-> name, Type |-> type, Equip |-> equip,
     Property |-> {}]

\* the descriptor with the declared property bag
WithProperty(item, bag) == [item EXCEPT !.Property = bag]

\* The itemList argument: isArray is Array.isArray(itemList)
ItemList(isArray, items) == [isArray |-> isArray, items |-> items]

RECURSIVE SeqsUpTo(_, _)
SeqsUpTo(S, n) ==
    IF n = 0 THEN {<<>>}
    ELSE LET shorter == SeqsUpTo(S, n - 1) IN
         shorter \cup {Append(s, x) : s \in {t \in shorter : Len(t) = n - 1}, x \in S}

----------------------------------------------------------------------------
(* Dependency graph and priorities: itemsArgSortDFS, itemsArgSort *)

\* The one-character strings a group name yields when it is iterated
StringChars ==
    [ItemHead  |-> <<"I", "t", "e", "m", "H", "e", "a", "d">>,
     ItemMouth |-> <<"I", "t", "e", "m", "M", "o", "u", "t", "h">>,
     ItemArms  |-> <<"I", "t", "e", "m", "A", "r", "m", "s">>,
     ItemHands |-> <<"I", "t", "e", "m", "H", "a", "n", "d", "s">>]

\* The members of a Set in insertion order: seq without its repeated entries
RECURSIVE Distinct(_)
Distinct(seq) ==
    IF seq = <<>> THEN <<>>
    ELSE LET front == Distinct(SubSeq(seq, 1, Len(seq) - 1)) IN
         IF seq[Len(seq)] \in Range(front) THEN front ELSE Append(front, seq[Len(seq)])

\* new Set(...args), line 144: the Set constructor reads its first argument
\* only, as an iterable; a string argument is iterated character by character
NewSet(args) == IF args = <<>> THEN <<>> ELSE Distinct(StringChars[args[1]])

\* getBaselineProperty(asset, character, Type ?? null).Block ?? [], line 142
getBaselineProperty(asset, type) == IF type = "Strict" THEN asset.TypeBlock ELSE <<>>

\* the node of lines 143-145; priority is <<>> while undefined
NewNode(asset, type) ==
    [block |-> NewSet(asset.Block \o getBaselineProperty(asset, type)),
     priority |-> <<>>]

\* graph.set(Group, node), line 146: the graph is [keys, node], keys in
\* insertion order
GraphSet(graph, group, node) ==
    [keys |-> IF group \in Range(graph.keys) THEN graph.keys
              ELSE Append(graph.keys, group),
     node |-> [g \in Range(graph.keys) \cup {group} |->
                  IF g = group THEN node ELSE graph.node[g]]]

EmptyGraph == [keys |-> <<>>, node |-> <<>>]

\* the loop of lines 135-147 with a continue in place of the throw of line 138
RECURSIVE BuildGraph_SkipUnknown(_, _, _)
BuildGraph_SkipUnknown(items, k, graph) ==
    IF k > Len(items) THEN [threw |-> FALSE, graph |-> graph]
    ELSE LET asset == AssetGet(items[k].Group, items[k].Name) IN
         IF asset = NoAsset \/ AssetGroup[asset.Group].Category # "Item"
         THEN BuildGraph_SkipUnknown(items, k + 1, graph)
         ELSE BuildGraph_SkipUnknown(items, k + 1,
                                     GraphSet(graph, items[k].Group,
                                              NewNode(asset, items[k].Type)))

\* the loop of lines 135-147 from item k on: [threw, graph]
RECURSIVE BuildGraph(_, _, _)
BuildGraph(items, k, graph) ==
    IF k > Len(items) THEN [threw |-> FALSE, graph |-> graph]
    ELSE LET asset == AssetGet(items[k].Group, items[k].Name) IN
         IF asset = NoAsset THEN [threw |-> TRUE, graph |-> graph]
         ELSE IF AssetGroup[asset.Group].Category # "Item"
              THEN BuildGraph(items, k + 1, graph)
              ELSE BuildGraph(items, k + 1,
                              GraphSet(graph, items[k].Group,
                                       NewNode(asset, items[k].Type)))

\* 1 + Math.max(...priorities) without the increment
PriorityOf_NoIncrement(priorities) == SetMax(Range(priorities))

\* 1 + Math.max(...priorities), line 114
PriorityOf(priorities) == 1 + SetMax(Range(priorities))

SetPriority(nodes, key, p) == [nodes EXCEPT ![key].priority = <<p>>]

\* itemsArgSortDFS(graph, graph.get(key)), lines 101-117, as [node, priority,
\* overflow]: node is the graph's nodes after the call; overflow says the
\* recursion went deeper than depth, which it does only when it never ends
RECURSIVE itemsArgSortDFS(_, _, _)
RECURSIVE VisitBlocked(_, _, _, _, _)
itemsArgSortDFS(nodes, key, depth) ==
    IF key \notin DOMAIN nodes
    THEN [node |-> nodes, priority |-> -1, overflow |-> FALSE]
    ELSE IF nodes[key].priority # <<>>
    THEN [node |-> nodes, priority |-> nodes[key].priority[1], overflow |-> FALSE]
    ELSE IF nodes[key].block = <<>>
    THEN [node |-> SetPriority(nodes, key, 0), priority |-> 0, overflow |-> FALSE]
    ELSE IF depth = 0
    THEN [node |-> nodes, priority |-> -1, overflow |-> TRUE]
    ELSE LET r == VisitBlocked(nodes, nodes[key].block, 1, <<>>, depth - 1) IN
         IF r.overflow THEN [node |-> r.node, priority |-> -1, overflow |-> TRUE]
         ELSE [node |-> SetPriority(r.node, key, PriorityOf(r.priorities)),
               priority |-> PriorityOf(r.priorities), overflow |-> FALSE]

\* the loop of lines 111-113 from the k-th member of node.block on
VisitBlocked(nodes, block, k, priorities, depth) ==
    IF k > Len(block)
    THEN [node |-> nodes, priorities |-> priorities, overflow |-> FALSE]
    ELSE LET r == itemsArgSortDFS(nodes, block[k], depth) IN
         IF r.overflow
         THEN [node |-> r.node, priorities |-> priorities, overflow |-> TRUE]
         ELSE VisitBlocked(r.node, block, k + 1, Append(priorities, r.priority), depth)

\* the loop of lines 150-152 from the k-th key of the graph on
RECURSIVE Traverse(_, _, _)
Traverse(graph, k, overflow) ==
    IF overflow \/ k > Len(graph.keys) THEN [graph |-> graph, overflow |-> overflow]
    ELSE LET r == itemsArgSortDFS(graph.node, graph.keys[k], Len(graph.keys)) IN
         Traverse([graph EXCEPT !.node = r.node], k + 1, r.overflow)

\* itemsArgSort(itemList, character), lines 125-160: [outcome, record], outcome
\* "returned", "thrown" (lines 130, 138) or "overflow" (unbounded recursion)
itemsArgSort(list) ==
    IF ~list.isArray THEN [outcome |-> "thrown", record |-> <<>>]
    ELSE LET built == BuildGraph(list.items, 1, EmptyGraph) IN
         IF built.threw THEN [outcome |-> "thrown", record |-> <<>>]
         ELSE LET done == Traverse(built.graph, 1, FALSE) IN
              IF done.overflow THEN [outcome |-> "overflow", record |-> <<>>]
              ELSE [outcome |-> "returned",
                    record  |-> [g \in Range(done.graph.keys) |->
                                    done.graph.node[g].priority[1]]]

----------------------------------------------------------------------------
(* fortuneItemsSort and the engine's Array.prototype.sort *)

\* Infinity of line 173, above every priority
Infinity == 1000

\* the comparefn of line 173: item => sortRecord[item.Group] ?? Infinity; it
\* reads its first argument only
comparefn(record, a, b) == IF a.Group \in DOMAIN record THEN record[a.Group] ELSE Infinity

\* Array.prototype.sort hands comparefn an inconsistent comparison here, so the
\* order is the engine's: a stable insertion sort that moves the inserted
\* element p in front of x when comparefn(p, x) < 0 ("pivotFirst") or when
\* comparefn(x, p) > 0 ("pivotSecond")
MovesBefore(record, eng, p, x) ==
    IF eng = "pivotFirst" THEN comparefn(record, p, x) < 0
    ELSE comparefn(record, x, p) > 0

RECURSIVE InsertSorted(_, _, _, _)
InsertSorted(record, eng, sorted, p) ==
    IF sorted = <<>> THEN <<p>>
    ELSE IF MovesBefore(record, eng, p, sorted[Len(sorted)])
         THEN Append(InsertSorted(record, eng, SubSeq(sorted, 1, Len(sorted) - 1), p),
                     sorted[Len(sorted)])
         ELSE Append(sorted, p)

RECURSIVE ArraySort(_, _, _, _)
ArraySort(record, eng, items, k) ==
    IF k = 0 THEN <<>>
    ELSE InsertSorted(record, eng, ArraySort(record, eng, items, k - 1), items[k])

\* fortuneItemsSort(itemList, character), lines 168-174: [outcome, record, items]
fortuneItemsSort(list, eng) ==
    LET sorted == itemsArgSort(list) IN
    IF sorted.outcome # "returned"
    THEN [outcome |-> sorted.outcome, record |-> <<>>, items |-> list.items]
    ELSE [outcome |-> "returned", record |-> sorted.record,
          items |-> ArraySort(sorted.record, eng, list.items, Len(list.items))]

----------------------------------------------------------------------------
(* canUnlock *)

\* InventoryGetLock(item)?.Asset, line 181: "none" stands for undefined
InventoryGetLock(item) == item.LockedBy

\* line 186: lock === undefined ? false : (!lock.OwnerOnly && !lock.LoverOnly)
DecoyUnlock(item) ==
    IF InventoryGetLock(item) = "none" THEN FALSE
    ELSE /\ ~LockAsset[InventoryGetLock(item)].OwnerOnly
         /\ ~LockAsset[InventoryGetLock(item)].LoverOnly

\* canUnlock without the test for the Decoy property
canUnlock_IgnoresCraft(item) ==
    IF ~item.Lock THEN TRUE ELSE DecoyUnlock(item)

\* canUnlock(item), lines 180-189
canUnlock(item) ==
    IF ~item.Lock THEN TRUE
    ELSE IF item.CraftProperty = "Decoy" THEN DecoyUnlock(item)
    ELSE FALSE

----------------------------------------------------------------------------
(* The collaborators of fortuneWheelEquip *)

\* InventoryGet(character, Group), lines 222 and 264: the worn item of the
\* group, or null
InventoryGet(worn, group) ==
    IF \E k \in DOMAIN worn : worn[k].Group = group
    THEN worn[CHOOSE k \in DOMAIN worn :
                 /\ worn[k].Group = group
                 /\ \A j \in DOMAIN worn : worn[j].Group = group => k <= j]
    ELSE NoItem

RECURSIVE Without(_, _)
Without(worn, group) ==
    IF worn = <<>> THEN <<>>
    ELSE IF worn[1].Group = group THEN Without(Tail(worn), group)
         ELSE <<worn[1]>> \o Without(Tail(worn), group)

\* InventoryRemove(character, Group, false), line 246
InventoryRemove(worn, group) == Without(worn, group)

\* CharacterAppearanceSetItem(character, Group, asset, ...), lines 260-263:
\* the group's occupant gives way to a fresh instance of the asset
CharacterAppearanceSetItem(worn, group, asset) ==
    Append(Without(worn, group), WornItem(group, asset.Name, FALSE, "none", "none"))

\* the keys of a property bag, and the value it holds under a key
Keys(bag) == {p[1] : p \in bag}
Value(bag, key) == (CHOOSE p \in bag : p[1] = key)[2]

\* Object.assign(target, source), line 276: the target keeps its own keys
\* and takes every key of the source with the source's value
ObjectAssign(target, source) ==
    {p \in target : p[1] \notin Keys(source)} \cup source

\* deepCopy(Property), lines 274 and 276: a copy, equal to its argument
deepCopy(bag) == bag

\* the Property an extended type gives an instance
TypeProperty == [Strict |-> {<<"Difficulty", 2>>, <<"Opacity", 1>>}]

\* itemSetType(newItem, character, Type), line 271: the instance takes the
\* properties of the type; a null Type leaves it as it is
itemSetType(newItem, type) ==
    IF type \in DOMAIN TypeProperty
    THEN [newItem EXCEPT !.Property = <<TypeProperty[type]>>]
    ELSE newItem

\* lines 273-277 with the assignment of line 274 in both branches
MergeProperty_Replace(property, declared) == <<deepCopy(declared)>>

\* lines 273-277: newItem.Property after the merge of the declared bag
MergeProperty(property, declared) ==
    IF property = <<>> THEN <<deepCopy(declared)>>
    ELSE <<ObjectAssign(property[1], deepCopy(declared))>>

\* lines 264-277 on the instance CharacterAppearanceSetItem has put in the
\* group: the declared Craft is undefined, so lines 268-270 and InventoryCraft
\* (line 272) change nothing
PostProcess(worn, item) ==
    [k \in DOMAIN worn |->
        IF worn[k].Group # item.Group THEN worn[k]
        ELSE LET typed == itemSetType(worn[k], item.Type) IN
             [typed EXCEPT !.Property = MergeProperty(typed.Property, item.Property)]]

\* InventoryBlockedOrLimited(character, { Asset: asset }), line 237
InventoryBlockedOrLimited(perm, asset) ==
    <<asset.Group, asset.Name>> \in perm.blockedOrLimited

\* InventoryAllow(character, asset, asset.Prerequisite, false), line 238
InventoryAllow(perm, asset) == <<asset.Group, asset.Name>> \notin perm.notAllowed

\* InventoryGroupIsBlocked(character, Group, false), line 239
InventoryGroupIsBlocked(perm, group) == group \in perm.groupBlocked

\* line 214 without its assignment: the callback's return value is dropped
RunPreRunCallback_Ignored(callback, items) == items

\* preRunCallback(itemList, character), line 214: the callbacks of the model
\* are filters of the list
RunPreRunCallback(callback, items) ==
    CASE callback = "dropFirst" -> IF items = <<>> THEN <<>> ELSE Tail(items)
      [] callback = "dropLast" ->
            IF items = <<>> THEN <<>> ELSE SubSeq(items, 1, Len(items) - 1)
      [] OTHER -> items

\* a call on a collaborator; at is the index of the list item it is made for
Event(op, at) == [op |-> op, at |-> at]

\* equipFailureRecord[key] = reasons, lines 227 and 244
RecordSet(record, key, reasons) ==
    [k \in DOMAIN record \cup {key} |-> IF k = key THEN reasons ELSE record[k]]

\* Object.entries(equipChecks).filter(tup => tup[1]) with the lock check skipped
equipChecks_NoLock(perm, oldItem, asset, group) ==
    (IF InventoryBlockedOrLimited(perm, asset)
     THEN <<"InventoryBlockedOrLimited">> ELSE <<>>)
    \o (IF ~InventoryAllow(perm, asset) THEN <<"InventoryAllow">> ELSE <<>>)
    \o (IF InventoryGroupIsBlocked(perm, group)
        THEN <<"InventoryGroupIsBlocked">> ELSE <<>>)

\* lines 235-242 with the checks of lines 237 and 238 made on the asset of
\* oldItem in place of the listed asset
equipChecks_OnOccupant(perm, oldItem, asset, group) ==
    LET worn == AssetGet(oldItem.Group, oldItem.Name) IN
    (IF ~canUnlock(oldItem) THEN <<"Locked item equiped">> ELSE <<>>)
    \o (IF InventoryBlockedOrLimited(perm, worn)
        THEN <<"InventoryBlockedOrLimited">> ELSE <<>>)
    \o (IF ~InventoryAllow(perm, worn) THEN <<"InventoryAllow">> ELSE <<>>)
    \o (IF InventoryGroupIsBlocked(perm, group)
        THEN <<"InventoryGroupIsBlocked">> ELSE <<>>)

\* lines 235-242 and the map of line 244: the names of the checks that are
\* true, in the order of the object literal
equipChecks(perm, oldItem, asset, group) ==
    (IF ~canUnlock(oldItem) THEN <<"Locked item equiped">> ELSE <<>>)
    \o (IF InventoryBlockedOrLimited(perm, asset)
        THEN <<"InventoryBlockedOrLimited">> ELSE <<>>)
    \o (IF ~InventoryAllow(perm, asset) THEN <<"InventoryAllow">> ELSE <<>>)
    \o (IF InventoryGroupIsBlocked(perm, group)
        THEN <<"InventoryGroupIsBlocked">> ELSE <<>>)

\* the key of line 254: asset?.Description ?? Name
FailureKey(item) ==
    LET asset == AssetGet(item.Group, item.Name) IN
    IF asset = NoAsset THEN item.Name ELSE asset.Description

\* the equip pass skips every item
SkipsEquip_Always(record, suppressed, item) == TRUE

\* the condition of line 255 without equipCallbackOutputs.has(Group)
SkipsEquip_NoSuppression(record, suppressed, item) ==
    \/ AssetGet(item.Group, item.Name) = NoAsset
    \/ FailureKey(item) \in DOMAIN record

\* the condition of line 255
SkipsEquip(record, suppressed, item) ==
    \/ AssetGet(item.Group, item.Name) = NoAsset
    \/ FailureKey(item) \in DOMAIN record
    \/ item.Group \in suppressed

----------------------------------------------------------------------------
(* The inputs the calls are made on *)

\* sequences over S of at most n entries, of different groups
WornSeqs(S, n) ==
    {w \in SeqsUpTo(S, n) : \A j, k \in DOMAIN w : j # k => w[j].Group # w[k].Group}

\* unlocked instances of assets
Plain(group, name) == WornItem(group, name, FALSE, "none", "none")

\* what characterStrip is called on
StripWardrobe ==
    {Plain("Cloth", "Dress"), Plain("Bra", "Bra1"), Plain("TailStraps", "FoxTail"),
     Plain("Eyes", "Eyes1"), Plain("ItemArms", "Cuffs")}

Characters ==
    {Character("player", s) : s \in {"absent", "unset", "block", "allow"}}
    \cup {Character("simple", "allow"), Character("online", "allow"),
          Character("null", "absent")}

\* the five levels and a value that is none of them
StripLevels == StripLevelNONE..(StripLevelALL + 1)

\* what canUnlock is called on
LockedItems ==
    {WornItem("ItemArms", "Cuffs", lock, craft, lockedBy) :
        lock \in BOOLEAN, craft \in {"none", "Decoy", "Secure"},
        lockedBy \in {"none", "PlainLock", "OwnerLock", "LoverLock"}}

\* what the sorters are called on
SortItems ==
    {Item("ItemHead", "Hood", "null", "absent"),
     Item("ItemMouth", "Gag", "null", "absent"),
     Item("ItemArms", "Cuffs", "Strict", "absent"),
     Item("ItemArms", "Cuffs", "null", "absent"),
     Item("ItemHands", "Mitts", "null", "absent"),
     Item("ItemHands", "Cuffs", "null", "absent"),
     Item("Cloth", "Dress", "null", "absent"),
     Item("ItemArms", "Mitts", "null", "absent")}

\* what fortuneWheelEquip is called on
EquipItems ==
    {Item(g, n, "null", e) :
        g \in {"ItemArms", "ItemHands"}, n \in {"Cuffs", "Mitts"},
        e \in {"absent", "false"}}
    \cup {Item("ItemArms", "Cuffs", "null", "true")}

\* declared property bags, and the descriptors that carry them
PropertyBags == {{}, {<<"Opacity", 5>>}, {<<"Difficulty", 9>>, <<"Effect", 3>>}}

PropertyItems ==
    {WithProperty(Item("ItemArms", "Cuffs", type, "absent"), bag) :
        type \in {"null", "Strict"}, bag \in PropertyBags}
    \cup {Item("ItemHands", "Mitts", "null", "absent")}

EquipWorn ==
    {<<Plain("Cloth", "Dress")>> \o arms \o hands :
        arms \in {<<>>, <<Plain("ItemArms", "Cuffs")>>,
                  <<WornItem("ItemArms", "Cuffs", TRUE, "none", "PlainLock")>>,
                  <<WornItem("ItemArms", "Cuffs", TRUE, "Decoy", "PlainLock")>>,
                  <<WornItem("ItemArms", "Cuffs", TRUE, "Decoy", "OwnerLock")>>},
        hands \in {<<>>, <<Plain("ItemHands", "Mitts")>>}}

Permissions(blockedOrLimited, notAllowed, groupBlocked) ==
    [blockedOrLimited |-> blockedOrLimited, notAllowed |-> notAllowed,
     groupBlocked |-> groupBlocked]

NoPermissions == Permissions({}, {}, {})

\* nothing forbidden, one thing forbidden, or the cuffs and their slot
\* forbidden in all three ways
EquipPermissions ==
    {NoPermissions,
     Permissions({<<"ItemArms", "Cuffs">>}, {}, {}),
     Permissions({<<"ItemHands", "Mitts">>}, {}, {}),
     Permissions({}, {<<"ItemArms", "Cuffs">>}, {}),
     Permissions({}, {}, {"ItemArms"}),
     Permissions({<<"ItemArms", "Cuffs">>}, {<<"ItemArms", "Cuffs">>}, {"ItemArms"})}

\* the variables a call does not use
Unused(names) ==
    /\ IF "character" \in names THEN TRUE ELSE character = Character("player", "allow")
    /\ IF "stripLevel" \in names THEN TRUE ELSE stripLevel = StripLevelNONE
    /\ IF "appearance" \in names THEN TRUE ELSE appearance = <<>>
    /\ IF "itemList" \in names THEN TRUE ELSE itemList = ItemList(TRUE, <<>>)
    /\ IF "preRunCallback" \in names THEN TRUE ELSE preRunCallback = "null"
    /\ IF "permissions" \in names THEN TRUE ELSE permissions = NoPermissions
    /\ IF "engine" \in names THEN TRUE ELSE engine = "pivotFirst"

InitStrip ==
    /\ call = "characterStrip"
    /\ character \in Characters
    /\ stripLevel \in StripLevels
    /\ appearance \in WornSeqs(StripWardrobe, MaxWorn)
    /\ Unused({"character", "stripLevel", "appearance"})

InitSort ==
    /\ call \in {"itemsArgSort", "fortuneItemsSort"}
    /\ itemList \in {ItemList(TRUE, items) : items \in SeqsUpTo(SortItems, MaxSortLen)}
                    \cup {ItemList(FALSE, <<>>)}
    /\ engine \in IF call = "fortuneItemsSort" THEN {"pivotFirst", "pivotSecond"}
                  ELSE {"pivotFirst"}
    /\ Unused({"itemList", "engine"})

InitUnlock ==
    /\ call = "canUnlock"
    /\ appearance \in {<<item>> : item \in LockedItems}
    /\ Unused({"appearance"})

\* fortuneWheelEquip on arguments that pass the checks of lines 208-211
InitEquip ==
    /\ call = "fortuneWheelEquip"
    /\ character \in {Character("player", "allow"), Character("simple", "allow")}
    /\ stripLevel \in {StripLevelNONE, StripLevelALL}
    /\ IsSimple(character) => stripLevel = StripLevelNONE
    /\ appearance \in EquipWorn
    /\ itemList \in {ItemList(TRUE, items) : items \in SeqsUpTo(EquipItems, MaxList)}
    /\ preRunCallback \in {"null", "dropFirst"}
    /\ permissions \in EquipPermissions
    /\ Unused({"character", "stripLevel", "appearance", "itemList",
               "preRunCallback", "permissions"})

\* fortuneWheelEquip on arguments that one of those checks rejects
InitEquipRejected ==
    /\ call = "fortuneWheelEquip"
    /\ character \in {Character("player", "allow"), Character("simple", "allow"),
                      Character("online", "allow"), Character("null", "absent")}
    /\ stripLevel \in {StripLevelNONE, StripLevelALL, StripLevelALL + 1}
    /\ appearance \in EquipWorn
    /\ itemList \in {ItemList(TRUE, items) : items \in SeqsUpTo(EquipItems, MaxList)}
                    \cup {ItemList(FALSE, <<>>)}
    /\ \/ ~itemList.isArray
       \/ character.kind \in {"online", "null"}
       \/ stripLevel = StripLevelALL + 1
    /\ preRunCallback \in {"null", "dropFirst"}
    /\ Unused({"character", "stripLevel", "appearance", "itemList", "preRunCallback"})

\* fortuneWheelEquip on descriptors with declared property bags
InitEquipProperty ==
    /\ call = "fortuneWheelEquip"
    /\ appearance \in {<<>>, <<Plain("ItemArms", "Cuffs")>>}
    /\ itemList \in {ItemList(TRUE, items) : items \in SeqsUpTo(PropertyItems, MaxList)}
    /\ Unused({"appearance", "itemList"})

Init ==
    /\ InitStrip \/ InitSort \/ InitUnlock \/ InitEquip \/ InitEquipRejected
       \/ InitEquipProperty
    /\ pc = "start"
    /\ appearance0 = appearance
    /\ afterStrip = appearance
    /\ workList = itemList.items
    /\ idx = 0
    /\ equipFailureRecord = <<>>
    /\ equipCallbackOutputs = {}
    /\ events = <<>>
    /\ sortRecord = <<>>
    /\ unlockResult = FALSE

----------------------------------------------------------------------------
(* The calls *)

\* characterStrip(stripLevel, character), lines 69-86
CallCharacterStrip ==
    /\ call = "characterStrip" /\ pc = "start"
    /\ IF characterStripThrows(stripLevel, character)
       THEN pc' = "thrown" /\ UNCHANGED <<appearance, afterStrip>>
       ELSE /\ pc' = "done"
            /\ appearance' = characterStrip(stripLevel, character, appearance)
            /\ afterStrip' = appearance'
    /\ UNCHANGED <<call, character, stripLevel, appearance0, itemList, workList,
                   preRunCallback, permissions, idx, equipFailureRecord,
                   equipCallbackOutputs, events, sortRecord, engine, unlockResult>>

\* itemsArgSort(itemList, character), lines 125-160
CallItemsArgSort ==
    /\ call = "itemsArgSort" /\ pc = "start"
    /\ LET r == itemsArgSort(itemList) IN
       /\ pc' = (IF r.outcome = "returned" THEN "done" ELSE r.outcome)
       /\ sortRecord' = r.record
    /\ UNCHANGED <<call, character, stripLevel, appearance, appearance0, afterStrip,
                   itemList, workList, preRunCallback, permissions, idx,
                   equipFailureRecord, equipCallbackOutputs, events, engine,
                   unlockResult>>

\* fortuneItemsSort(itemList, character), lines 168-174; workList is the
\* list, which is sorted in place
CallFortuneItemsSort ==
    /\ call = "fortuneItemsSort" /\ pc = "start"
    /\ LET r == fortuneItemsSort(itemList, engine) IN
       /\ pc' = (IF r.outcome = "returned" THEN "done" ELSE r.outcome)
       /\ sortRecord' = r.record
       /\ workList' = r.items
    /\ UNCHANGED <<call, character, stripLevel, appearance, appearance0, afterStrip,
                   itemList, preRunCallback, permissions, idx, equipFailureRecord,
                   equipCallbackOutputs, events, engine, unlockResult>>

\* canUnlock(item), lines 180-189, on the one worn item
CallCanUnlock ==
    /\ call = "canUnlock" /\ pc = "start"
    /\ pc' = "done"
    /\ unlockResult' = canUnlock(appearance[1])
    /\ UNCHANGED <<call, character, stripLevel, appearance, appearance0, afterStrip,
                   itemList, workList, preRunCallback, permissions, idx,
                   equipFailureRecord, equipCallbackOutputs, events, sortRecord,
                   engine>>

----------------------------------------------------------------------------
(* fortuneWheelEquip, lines 200-298, pass by pass and item by item *)

EquipFrame == <<call, character, stripLevel, appearance0, itemList, preRunCallback,
                permissions, sortRecord, engine, unlockResult>>

\* lines 208-210: the itemList check
FWValidate ==
    /\ call = "fortuneWheelEquip" /\ pc = "start"
    /\ pc' = IF itemList.isArray THEN "strip" ELSE "thrown"
    /\ UNCHANGED <<appearance, afterStrip, workList, idx, equipFailureRecord,
                   equipCallbackOutputs, events>>
    /\ UNCHANGED EquipFrame

\* line 211: characterStrip(stripLevel, character)
FWStrip ==
    /\ call = "fortuneWheelEquip" /\ pc = "strip"
    /\ IF characterStripThrows(stripLevel, character)
       THEN pc' = "thrown" /\ UNCHANGED <<appearance, afterStrip, events>>
       ELSE /\ pc' = "preRun"
            /\ appearance' = characterStrip(stripLevel, character, appearance)
            /\ afterStrip' = appearance'
            /\ events' = Append(events, Event("strip", 0))
    /\ UNCHANGED <<workList, idx, equipFailureRecord, equipCallbackOutputs>>
    /\ UNCHANGED EquipFrame

\* lines 213-219: the pre-run callback, then the empty record and set
FWPreRun ==
    /\ call = "fortuneWheelEquip" /\ pc = "preRun"
    /\ pc' = "clear"
    /\ idx' = 1
    /\ IF preRunCallback # "null"
       THEN /\ workList' = RunPreRunCallback(preRunCallback, workList)
            /\ events' = Append(events, Event("preRunCallback", 0))
       ELSE UNCHANGED <<workList, events>>
    /\ equipFailureRecord' = <<>>
    /\ equipCallbackOutputs' = {}
    /\ UNCHANGED <<appearance, afterStrip>>
    /\ UNCHANGED EquipFrame

\* one iteration of the first pass, lines 220-249, on workList[idx]
FWClear ==
    /\ call = "fortuneWheelEquip" /\ pc = "clear" /\ idx <= Len(workList)
    /\ LET item == workList[idx]
           asset == AssetGet(item.Group, item.Name)
           oldItem == InventoryGet(appearance, item.Group)
           equip == item.Equip # "false"
           called == IF item.Equip = "absent" THEN events
                     ELSE Append(events, Event("Equip", idx))
           equipFailure == equipChecks(permissions, oldItem, asset, item.Group)
       IN
       IF asset = NoAsset
       THEN /\ equipFailureRecord' =
                   RecordSet(equipFailureRecord, item.Name, <<"Unknown asset">>)
            /\ events' = called
            /\ UNCHANGED <<equipCallbackOutputs, appearance>>
       ELSE IF ~equip
       THEN /\ equipCallbackOutputs' = equipCallbackOutputs \cup {item.Group}
            /\ events' = called
            /\ UNCHANGED <<equipFailureRecord, appearance>>
       ELSE IF oldItem = NoItem
       THEN /\ events' = called
            /\ UNCHANGED <<equipFailureRecord, equipCallbackOutputs, appearance>>
       ELSE IF equipFailure # <<>>
       THEN /\ equipFailureRecord' =
                   RecordSet(equipFailureRecord, asset.Description, equipFailure)
            /\ events' = called
            /\ UNCHANGED <<equipCallbackOutputs, appearance>>
       ELSE /\ appearance' = InventoryRemove(appearance, item.Group)
            /\ events' = Append(called, Event("InventoryRemove", idx))
            /\ UNCHANGED <<equipFailureRecord, equipCallbackOutputs>>
    /\ idx' = idx + 1
    /\ UNCHANGED <<pc, afterStrip, workList>>
    /\ UNCHANGED EquipFrame

\* the passage to the second pass with the list reversed in between
FWClearEnd_Reversed ==
    /\ call = "fortuneWheelEquip" /\ pc = "clear" /\ idx > Len(workList)
    /\ pc' = "equip"
    /\ idx' = 1
    /\ workList' = [k \in DOMAIN workList |-> workList[Len(workList) + 1 - k]]
    /\ UNCHANGED <<appearance, afterStrip, equipFailureRecord,
                   equipCallbackOutputs, events>>
    /\ UNCHANGED EquipFrame

\* the first pass is over: the second pass of line 252 begins
FWClearEnd ==
    /\ call = "fortuneWheelEquip" /\ pc = "clear" /\ idx > Len(workList)
    /\ pc' = "equip"
    /\ idx' = 1
    /\ UNCHANGED <<appearance, afterStrip, workList, equipFailureRecord,
                   equipCallbackOutputs, events>>
    /\ UNCHANGED EquipFrame

\* one iteration of the second pass, lines 252-286, on workList[idx]
FWEquip ==
    /\ call = "fortuneWheelEquip" /\ pc = "equip" /\ idx <= Len(workList)
    /\ LET item == workList[idx]
           asset == AssetGet(item.Group, item.Name)
       IN
       IF SkipsEquip(equipFailureRecord, equipCallbackOutputs, item)
       THEN UNCHANGED <<appearance, events>>
       ELSE /\ appearance' =
                   PostProcess(CharacterAppearanceSetItem(appearance, item.Group, asset),
                               item)
            /\ events' = Append(events, Event("CharacterAppearanceSetItem", idx))
    /\ idx' = idx + 1
    /\ UNCHANGED <<pc, afterStrip, workList, equipFailureRecord, equipCallbackOutputs>>
    /\ UNCHANGED EquipFrame

\* lines 288-297: the refresh, the notification and the log
FWRefresh ==
    /\ call = "fortuneWheelEquip" /\ pc = "equip" /\ idx > Len(workList)
    /\ pc' = "done"
    /\ events' =
          IF IsPlayer(character)
          THEN events \o <<Event("CharacterRefresh(true)", 0),
                           Event("ChatRoomCharacterUpdate", 0)>>
                      \o (IF DOMAIN equipFailureRecord # {}
                          THEN <<Event("console.log", 0)>> ELSE <<>>)
          ELSE Append(events, Event("CharacterRefresh(false)", 0))
    /\ UNCHANGED <<appearance, afterStrip, workList, idx, equipFailureRecord,
                   equipCallbackOutputs>>
    /\ UNCHANGED EquipFrame

Next ==
    \/ CallCharacterStrip
    \/ CallItemsArgSort
    \/ CallFortuneItemsSort
    \/ CallCanUnlock
    \/ FWValidate
    \/ FWStrip
    \/ FWPreRun
    \/ FWClear
    \/ FWClearEnd
    \/ FWEquip
    \/ FWRefresh

Spec == Init /\ [][Next]_vars

----------------------------------------------------------------------------
(* Properties of the sorters *)

SortReturned == call \in {"itemsArgSort", "fortuneItemsSort"} /\ pc = "done"

\* the groups an item's asset blocks: asset.Block united with the Block of
\* the baseline property of the item's type
EffectiveBlock(item) ==
    LET asset == AssetGet(item.Group, item.Name) IN
    Range(asset.Block) \cup Range(getBaselineProperty(asset, item.Type))

\* the list items that own a graph node: of the Item category, and the last
\* of the list for their group
NodeItems(items) ==
    {k \in DOMAIN items :
        /\ AssetGroup[items[k].Group].Category = "Item"
        /\ \A j \in DOMAIN items : items[j].Group = items[k].Group => j <= k}

\* the priority a blocked group counts with
BlockedPriority(record, group) ==
    IF group \in DOMAIN record THEN record[group] ELSE -1

\* C1: an Item-category item whose effective block list names the group of
\* another listed item gets the priority 1 + the maximum of the priorities of
\* the groups it blocks, a blocked group outside the graph counting as -1
C1_PriorityIsOnePlusMaxBlocked ==
    SortReturned =>
        \A k \in NodeItems(itemList.items) :
            LET item == itemList.items[k] IN
            (\E j \in NodeItems(itemList.items) :
                j # k /\ itemList.items[j].Group \in EffectiveBlock(item))
            => sortRecord[item.Group] =
                   1 + SetMax({BlockedPriority(sortRecord, g) : g \in EffectiveBlock(item)})

\* the key fortuneItemsSort orders by
ResolvedPriority(record, item) ==
    IF item.Group \in DOMAIN record THEN record[item.Group] ELSE Infinity

\* C2: fortuneItemsSort leaves the list in non-decreasing order of resolved
\* priority, the items without a priority after all the others
C2_SortedByPriority ==
    (call = "fortuneItemsSort" /\ pc = "done") =>
        \A j, k \in DOMAIN workList :
            j < k => ResolvedPriority(sortRecord, workList[j])
                        <= ResolvedPriority(sortRecord, workList[k])

\* C3: an Item-category item that blocks no group gets priority 0, and every
\* priority of the returned mapping is a non-negative integer
C3_EmptyBlockPriorityZero ==
    SortReturned =>
        /\ \A k \in NodeItems(itemList.items) :
              EffectiveBlock(itemList.items[k]) = {}
              => sortRecord[itemList.items[k].Group] = 0
        /\ \A g \in DOMAIN sortRecord : sortRecord[g] \in Nat

\* C3 happens: a mapping is returned for a list with an item that blocks no
\* group and an item that blocks some
C3_Witness ==
    /\ SortReturned
    /\ \E j, k \in NodeItems(itemList.items) :
          /\ EffectiveBlock(itemList.items[j]) = {}
          /\ EffectiveBlock(itemList.items[k]) # {}
          /\ sortRecord[itemList.items[j].Group] = 0

----------------------------------------------------------------------------
(* Properties of canUnlock and of the transaction *)

Equipping == call = "fortuneWheelEquip"

\* the equip pass has applied workList[k]
Equipped(k) ==
    \E e \in Range(events) : e.op = "CharacterAppearanceSetItem" /\ e.at = k

\* the clearing pass has removed the occupant of the slot of workList[k]
Cleared(k) == \E e \in Range(events) : e.op = "InventoryRemove" /\ e.at = k

Count(op) == Cardinality({n \in DOMAIN events : events[n].op = op})

Resolves(item) == AssetGet(item.Group, item.Name) # NoAsset

\* a lock effect and a crafted property other than Decoy
LockedNotDecoy(worn) == worn.Lock /\ worn.CraftProperty # "Decoy"

\* the clearing pass runs, or has just ended
InClearingPass == Equipping /\ (pc = "clear" \/ (pc = "equip" /\ idx = 1))

\* C4: a worn item with a lock effect and a crafted property other than
\* Decoy is still worn, in its slot, throughout the clearing pass
C4_LockedItemSurvivesClearing ==
    InClearingPass =>
        \A worn \in Range(afterStrip) :
            LockedNotDecoy(worn) => InventoryGet(appearance, worn.Group) = worn

\* C4 happens: the clearing pass has visited an item that resolves, is not
\* suppressed and targets the slot of a locked item that is not a decoy
C4_Witness ==
    /\ Equipping /\ pc = "equip" /\ idx = 1
    /\ \E k \in DOMAIN workList :
          /\ Resolves(workList[k]) /\ workList[k].Equip # "false"
          /\ LockedNotDecoy(InventoryGet(afterStrip, workList[k].Group))
          /\ InventoryGet(afterStrip, workList[k].Group) # NoItem
          /\ permissions = NoPermissions

\* the occupant of the slot of workList[k] when the clearing pass began
Occupant(k) == InventoryGet(afterStrip, workList[k].Group)

\* an occupant that cannot be unlocked sits in the slot of workList[k]
LockedOccupant(k) == Occupant(k) # NoItem /\ ~canUnlock(Occupant(k))

\* one of the three blockers other than the lock is true of workList[k]
OtherBlocker(k) ==
    \/ <<workList[k].Group, workList[k].Name>> \in permissions.blockedOrLimited
    \/ <<workList[k].Group, workList[k].Name>> \in permissions.notAllowed
    \/ workList[k].Group \in permissions.groupBlocked

\* C5 as stated: every list item whose slot holds an occupant that cannot be
\* unlocked ends with the failure entry ["Locked item equiped"], the occupant
\* in place and the item not equipped
C5_LockedOccupantExactReason ==
    (Equipping /\ pc = "done") =>
        \A k \in DOMAIN workList :
            LockedOccupant(k) =>
                /\ FailureKey(workList[k]) \in DOMAIN equipFailureRecord
                /\ equipFailureRecord[FailureKey(workList[k])] = <<"Locked item equiped">>
                /\ InventoryGet(appearance, workList[k].Group) = Occupant(k)
                /\ ~Equipped(k)

\* the names of the other three blockers that are true of workList[k], in the
\* order of the checks
OtherReasons(k) ==
    (IF <<workList[k].Group, workList[k].Name>> \in permissions.blockedOrLimited
     THEN <<"InventoryBlockedOrLimited">> ELSE <<>>)
    \o (IF <<workList[k].Group, workList[k].Name>> \in permissions.notAllowed
        THEN <<"InventoryAllow">> ELSE <<>>)
    \o (IF workList[k].Group \in permissions.groupBlocked
        THEN <<"InventoryGroupIsBlocked">> ELSE <<>>)

\* no later item of the list is recorded under the failure key of workList[k]
LastOfKey(k) ==
    \A j \in DOMAIN workList :
        j > k => FailureKey(workList[j]) # FailureKey(workList[k])

\* C5 amended: for a list item that resolves and is not suppressed by its
\* equip predicate, an occupant that cannot be unlocked stays in place, the
\* item is not equipped and the failure record holds an entry under the item's
\* description; unless a later item of the list has the same failure key, that
\* entry is "Locked item equiped" followed by the other blockers that are true
\* of the item, and so exactly that reason only when none of them is
C5_LockedOccupantKeepsSlot ==
    (Equipping /\ pc = "done") =>
        \A k \in DOMAIN workList :
            (LockedOccupant(k) /\ Resolves(workList[k]) /\ workList[k].Equip # "false") =>
                LET key == FailureKey(workList[k]) IN
                /\ key \in DOMAIN equipFailureRecord
                /\ InventoryGet(appearance, workList[k].Group) = Occupant(k)
                /\ ~Equipped(k)
                /\ LastOfKey(k) =>
                      equipFailureRecord[key] = <<"Locked item equiped">> \o OtherReasons(k)

\* C5 happens: the transaction has ended for a list whose last item resolves,
\* is not suppressed, meets no other blocker and targets a slot whose occupant
\* cannot be unlocked
C5_Witness ==
    /\ Equipping /\ pc = "done"
    /\ \E k \in DOMAIN workList :
          /\ LockedOccupant(k) /\ Resolves(workList[k]) /\ workList[k].Equip # "false"
          /\ LastOfKey(k) /\ ~OtherBlocker(k)
          /\ equipFailureRecord[FailureKey(workList[k])] = <<"Locked item equiped">>

\* C6: canUnlock says of an item without lock effect that it can be removed,
\* and of a Decoy item with lock effect that it can be removed exactly when its
\* lock is absent or neither owner-only nor lover-only
C6_DecoyUnlockRule ==
    (call = "canUnlock" /\ pc = "done") =>
        LET item == appearance[1] IN
        /\ ~item.Lock => unlockResult
        /\ (item.Lock /\ item.CraftProperty = "Decoy") =>
              (unlockResult <=>
                  \/ item.LockedBy = "none"
                  \/ /\ ~LockAsset[item.LockedBy].OwnerOnly
                     /\ ~LockAsset[item.LockedBy].LoverOnly)


\* a removal blocker is true of workList[k] and the occupant its clearing meets
\* (the occupant is gone once an earlier item of the list has cleared the slot)
BlockerFires(k) ==
    /\ Occupant(k) # NoItem
    /\ \A j \in DOMAIN workList : j < k => workList[j].Group # workList[k].Group
    /\ ~canUnlock(Occupant(k)) \/ OtherBlocker(k)

\* every item resolves, none is suppressed and no removal blocker fires
CleanList ==
    \A k \in DOMAIN workList :
        Resolves(workList[k]) /\ workList[k].Equip # "false" /\ ~BlockerFires(k)

\* the list item that is the last to target the slot of workList[k]
LastOfSlot(k) ==
    CHOOSE j \in DOMAIN workList :
        /\ workList[j].Group = workList[k].Group
        /\ \A n \in DOMAIN workList : workList[n].Group = workList[k].Group => n <= j

\* C7: on the player, a clean list ends with every targeted slot holding a new
\* instance of the asset listed for it (the last listed, when several items
\* target the slot), an empty failure record, one forced refresh and one
\* character-update notification
C7_CleanListEquipsAll ==
    (Equipping /\ pc = "done" /\ IsPlayer(character) /\ CleanList) =>
        /\ \A k \in DOMAIN workList :
              LET worn == InventoryGet(appearance, workList[k].Group) IN
              /\ worn.Group = workList[k].Group
              /\ worn.Name = workList[LastOfSlot(k)].Name
              /\ ~worn.Lock /\ worn.LockedBy = "none"
        /\ \A k \in DOMAIN workList : Equipped(k)
        /\ DOMAIN equipFailureRecord = {}
        /\ Count("CharacterRefresh(true)") = 1
        /\ Count("CharacterRefresh(false)") = 0
        /\ Count("ChatRoomCharacterUpdate") = 1
        /\ Count("console.log") = 0

\* C7 happens: the transaction has ended on the player for a clean list of two
\* items of different slots, one of them cleared of its occupant
C7_Witness ==
    /\ Equipping /\ pc = "done" /\ IsPlayer(character) /\ CleanList
    /\ Len(workList) = 2 /\ workList[1].Group # workList[2].Group
    /\ \E k \in DOMAIN workList : Cleared(k)

\* the three kinds of invalid input
InvalidInput ==
    \/ ~itemList.isArray
    \/ stripLevel \notin {StripLevelNONE, StripLevelCLOTHES, StripLevelUNDERWEAR,
                          StripLevelCOSPLAY, StripLevelALL}
    \/ character.kind \notin {"simple", "player"}

\* C8: on invalid input fortuneWheelEquip gets no further than its checks and
\* ends thrown: the worn items are as they were and no collaborator or callback
\* has been called
C8_InvalidInputNoEffect ==
    (Equipping /\ InvalidInput) =>
        /\ pc \in {"start", "strip", "thrown"}
        /\ appearance = appearance0
        /\ events = <<>>
        /\ DOMAIN equipFailureRecord = {}
        /\ equipCallbackOutputs = {}

\* C8 happens: the call has thrown for a strip level that is none of the
\* five, on a character wearing clothes and for a list with items
C8_Witness ==
    /\ Equipping /\ pc = "thrown"
    /\ stripLevel = StripLevelALL + 1 /\ itemList.isArray /\ itemList.items # <<>>
    /\ character.kind = "player"
    /\ appearance # <<>>

\* item j resolves, is not suppressed, meets no blocker and shares its slot
\* and its description with no other item of the list
Unhindered(j) ==
    /\ Resolves(workList[j]) /\ workList[j].Equip # "false"
    /\ Occupant(j) = NoItem \/ (canUnlock(Occupant(j)) /\ ~OtherBlocker(j))
    /\ \A n \in DOMAIN workList :
          (n # j /\ Resolves(workList[n])) =>
              /\ workList[n].Group # workList[j].Group
              /\ FailureKey(workList[n]) # FailureKey(workList[j])

\* C9: an item whose asset does not resolve ends recorded under its name with
\* the reason "Unknown asset" and not equipped, the transaction ends without
\* throwing, and the other items are still equipped
C9_UnknownAssetDoesNotAbort ==
    (Equipping /\ ~InvalidInput /\ pc = "done") =>
        \A k \in DOMAIN workList :
            ~Resolves(workList[k]) =>
                /\ workList[k].Name \in DOMAIN equipFailureRecord
                /\ equipFailureRecord[workList[k].Name] = <<"Unknown asset">>
                /\ ~Equipped(k)
                /\ \A j \in DOMAIN workList : Unhindered(j) => Equipped(j)

\* the worn items characterStrip has removed
Stripped == Range(appearance0) \ Range(afterStrip)

IsCosplay(worn) == AssetGet(worn.Group, worn.Name).BodyCosplay

----------------------------------------------------------------------------
(* C11: the strip levels None and Clothes *)

\* the strip pass has run: characterStrip has returned, or fortuneWheelEquip
\* is past its line 211
StripDone ==
    \/ call = "characterStrip" /\ pc = "done"
    \/ Equipping /\ pc \in {"preRun", "clear", "equip", "done"}

InUnderwearSlot(worn) == AssetGroup[worn.Group].Underwear

\* C11: at the level None the strip pass leaves the appearance list as it
\* was; at the level Clothes it removes no item of an underwear slot and no
\* cosplay item
C11_NoneAndClothesSpare ==
    StripDone =>
        /\ stripLevel = StripLevelNONE => afterStrip = appearance0
        /\ stripLevel = StripLevelCLOTHES =>
              \A worn \in Stripped : ~InUnderwearSlot(worn) /\ ~IsCosplay(worn)

\* C11 happens: characterStrip at the level Clothes has removed an item from
\* a character that wore an underwear item and a cosplay item
C11_Witness ==
    /\ call = "characterStrip" /\ pc = "done" /\ stripLevel = StripLevelCLOTHES
    /\ Stripped # {}
    /\ \E worn \in Range(appearance0) : InUnderwearSlot(worn)
    /\ \E worn \in Range(appearance0) : IsCosplay(worn)

----------------------------------------------------------------------------
(* C12: the pre-run callback's list is the list the passes work on *)

\* the pre-run step of lines 213-215 is over
PastPreRun == Equipping /\ pc \in {"clear", "equip", "done"}

\* what the supplied callback returns for the caller's list
Returned ==
    IF preRunCallback = "dropFirst" /\ itemList.items # <<>>
    THEN Tail(itemList.items) ELSE itemList.items

\* the item the supplied callback has filtered out of a list of two
Dropped == itemList.items[1]

\* C12: a supplied pre-run callback is called once, right after the strip
\* pass, and the list it returns is the working list: every step of the two
\* passes is made for an entry of that list, the failure record and the
\* suppressed slots come from its entries alone, and an item the callback has
\* filtered out gets no failure entry of its own and leaves the occupant of
\* its slot as the strip pass left it, unless a kept item shares its failure
\* key or its slot
C12_PreRunListReplacesWorkList ==
    (PastPreRun /\ preRunCallback # "null") =>
        /\ workList = Returned
        /\ Len(events) >= 2
        /\ events[1].op = "strip" /\ events[2].op = "preRunCallback"
        /\ Count("preRunCallback") = 1
        /\ \A e \in Range(events) : e.at # 0 => e.at \in DOMAIN Returned
        /\ DOMAIN equipFailureRecord
              \subseteq {FailureKey(Returned[k]) : k \in DOMAIN Returned}
        /\ equipCallbackOutputs \subseteq {Returned[k].Group : k \in DOMAIN Returned}
        /\ itemList.items # <<>> =>
              /\ (\A k \in DOMAIN Returned : FailureKey(Returned[k]) # FailureKey(Dropped))
                    => FailureKey(Dropped) \notin DOMAIN equipFailureRecord
              /\ (\A k \in DOMAIN Returned : Returned[k].Group # Dropped.Group)
                    => InventoryGet(appearance, Dropped.Group)
                          = InventoryGet(afterStrip, Dropped.Group)

\* C12 happens: the callback has filtered out an item that resolves, is not
\* suppressed and targets an occupied slot no kept item targets, and the kept
\* item has been equipped
C12_Witness ==
    /\ Equipping /\ pc = "done" /\ preRunCallback = "dropFirst"
    /\ Len(itemList.items) = 2 /\ Len(workList) = 1
    /\ Resolves(Dropped) /\ Dropped.Equip = "absent"
    /\ Dropped.Group # workList[1].Group
    /\ FailureKey(Dropped) # FailureKey(workList[1])
    /\ InventoryGet(afterStrip, Dropped.Group) # NoItem
    /\ Equipped(1)

----------------------------------------------------------------------------
(* C13: the refresh that ends the transaction *)

Refreshes == Count("CharacterRefresh(true)") + Count("CharacterRefresh(false)")

\* the calls fortuneWheelEquip makes after its two loops, in order
Closing(n) == SubSeq(events, Len(events) - n + 1, Len(events))

\* every step of the strip, of the pre-run callback and of the two passes
\* comes before the last n calls
NoPassStepIn(n) ==
    \A j \in DOMAIN events :
        events[j].op \in {"strip", "preRunCallback", "Equip", "InventoryRemove",
                          "CharacterAppearanceSetItem"}
            => j <= Len(events) - n

\* C13: a call of fortuneWheelEquip that returns has made exactly one refresh,
\* after every step of the two passes: on the player the forced refresh, then
\* one update notification, then the log of the failure summary if and only if
\* the failure record is not empty; on any other character the lighter refresh
\* alone. Before the call returns, and when it throws, there is no refresh,
\* notification or log
C13_OneClosingRefresh ==
    Equipping =>
        /\ pc # "done" =>
              Refreshes = 0 /\ Count("ChatRoomCharacterUpdate") = 0
                 /\ Count("console.log") = 0
        /\ pc = "done" =>
              /\ Refreshes = 1
              /\ IF character.kind = "player"
                 THEN /\ Count("CharacterRefresh(true)") = 1
                      /\ Count("ChatRoomCharacterUpdate") = 1
                      /\ IF DOMAIN equipFailureRecord # {}
                         THEN /\ Len(events) >= 3
                              /\ Closing(3) = <<Event("CharacterRefresh(true)", 0),
                                                Event("ChatRoomCharacterUpdate", 0),
                                                Event("console.log", 0)>>
                              /\ Count("console.log") = 1
                              /\ NoPassStepIn(3)
                         ELSE /\ Len(events) >= 2
                              /\ Closing(2) = <<Event("CharacterRefresh(true)", 0),
                                                Event("ChatRoomCharacterUpdate", 0)>>
                              /\ Count("console.log") = 0
                              /\ NoPassStepIn(2)
                 ELSE /\ Closing(1) = <<Event("CharacterRefresh(false)", 0)>>
                      /\ Count("ChatRoomCharacterUpdate") = 0
                      /\ Count("console.log") = 0
                      /\ NoPassStepIn(1)

\* C13 happens: the transaction has ended on the player with a failure on
\* record and an item equipped
C13_Witness ==
    /\ Equipping /\ pc = "done" /\ character.kind = "player"
    /\ DOMAIN equipFailureRecord # {}
    /\ \E k \in DOMAIN workList : Equipped(k)

----------------------------------------------------------------------------
(* C14: the sorters on a list with an unknown asset *)

Sorting == call \in {"itemsArgSort", "fortuneItemsSort"}

\* an item of the caller's list names an asset that does not resolve
HasUnknownAsset == \E k \in DOMAIN itemList.items : ~Resolves(itemList.items[k])

\* C14: on a list with an item whose asset does not resolve, itemsArgSort
\* throws and returns no mapping, and fortuneItemsSort throws as well and
\* leaves the list in the order it had
C14_UnknownAssetThrows ==
    (Sorting /\ pc # "start" /\ HasUnknownAsset) =>
        /\ pc = "thrown"
        /\ sortRecord = <<>>
        /\ workList = itemList.items

\* C14 happens: fortuneItemsSort has thrown on a list of restraints whose last
\* item does not resolve
C14_Witness ==
    /\ call = "fortuneItemsSort" /\ pc = "thrown"
    /\ Len(itemList.items) >= 2
    /\ ~Resolves(itemList.items[Len(itemList.items)])
    /\ Resolves(itemList.items[1])
    /\ AssetGroup[itemList.items[1].Group].Category = "Item"

----------------------------------------------------------------------------
(* C15: the declared property bag is merged onto the instance *)

\* workList[k] is the item the equip pass has applied last to its slot
LastEquipped(k) ==
    /\ Equipped(k)
    /\ \A j \in DOMAIN workList :
          (j > k /\ workList[j].Group = workList[k].Group) => ~Equipped(j)

\* the properties the instance of workList[k] has when the merge begins: those
\* of its type
PropertyBefore(k) == TypeProperty[workList[k].Type]

\* C15: when the declared bag of an item is merged onto a new instance that
\* has properties already, the instance ends with every key it had and every
\* declared key: a declared key holds the declared value and any other key
\* holds the value it had before the merge
C15_PropertyMergedNotReplaced ==
    Equipping =>
        \A k \in DOMAIN workList :
            (LastEquipped(k) /\ workList[k].Type \in DOMAIN TypeProperty) =>
                LET worn == InventoryGet(appearance, workList[k].Group)
                    declared == workList[k].Property
                IN
                /\ worn.Property # <<>>
                /\ Keys(worn.Property[1]) = Keys(PropertyBefore(k)) \cup Keys(declared)
                /\ \A key \in Keys(worn.Property[1]) :
                      Value(worn.Property[1], key) =
                          IF key \in Keys(declared) THEN Value(declared, key)
                          ELSE Value(PropertyBefore(k), key)

\* C15 happens: an instance with properties has been given a declared bag
\* that overrides one of its keys, lacks another and adds a third
C15_Witness ==
    /\ Equipping
    /\ \E k \in DOMAIN workList :
          /\ LastEquipped(k) /\ workList[k].Type \in DOMAIN TypeProperty
          /\ Keys(PropertyBefore(k)) \cap Keys(workList[k].Property) # {}
          /\ Keys(PropertyBefore(k)) \ Keys(workList[k].Property) # {}
          /\ Keys(workList[k].Property) \ Keys(PropertyBefore(k)) # {}

----------------------------------------------------------------------------
(* C16: the four removal blockers of the clearing pass *)

\* the clearing pass has just made its step for workList[k]
JustVisited(k) ==
    /\ Equipping /\ k \in DOMAIN workList
    /\ \/ pc = "clear" /\ idx = k + 1
       \/ pc = "equip" /\ idx = 1 /\ k = Len(workList)

\* the occupant the clearing pass found in the slot of workList[k]: the one
\* the strip pass left, unless the step of an earlier item has removed it
OccupantAtVisit(k) ==
    IF \E j \in 1..(k - 1) : workList[j].Group = workList[k].Group /\ Cleared(j)
    THEN NoItem ELSE Occupant(k)

\* workList[k] resolves, is not suppressed and found its slot occupied
MeetsOccupant(k) ==
    /\ Resolves(workList[k]) /\ workList[k].Equip # "false"
    /\ OccupantAtVisit(k) # NoItem

\* the blockers that fire, in order, with the two inventory checks made on
\* the pair <<group, name>> given
FiredBlockers(k, checked) ==
    (IF ~canUnlock(OccupantAtVisit(k)) THEN <<"Locked item equiped">> ELSE <<>>)
    \o (IF checked \in permissions.blockedOrLimited
        THEN <<"InventoryBlockedOrLimited">> ELSE <<>>)
    \o (IF checked \in permissions.notAllowed THEN <<"InventoryAllow">> ELSE <<>>)
    \o (IF workList[k].Group \in permissions.groupBlocked
        THEN <<"InventoryGroupIsBlocked">> ELSE <<>>)

\* the step for workList[k] has removed the occupant if and only if fired is
\* empty, and has otherwise left it in place and recorded fired
StepOutcome(k, fired) ==
    LET now == InventoryGet(appearance, workList[k].Group) IN
    /\ Cleared(k) <=> fired = <<>>
    /\ fired = <<>> => now = NoItem
    /\ fired # <<>> =>
          /\ now = OccupantAtVisit(k)
          /\ FailureKey(workList[k]) \in DOMAIN equipFailureRecord
          /\ equipFailureRecord[FailureKey(workList[k])] = fired

\* C16 as stated: for an item that resolves, is not suppressed and finds its
\* slot occupied, the blockers are that the occupant cannot be unlocked, that
\* the occupant is blocked or limited, that the occupant fails the
\* inventory-allow check and that the slot is blocked; the occupant is removed
\* if and only if none fires, else it stays and the fired ones are recorded
C16_BlockersOfTheOccupant ==
    \A k \in DOMAIN workList :
        (JustVisited(k) /\ MeetsOccupant(k)) =>
            StepOutcome(k, FiredBlockers(k, <<OccupantAtVisit(k).Group,
                                              OccupantAtVisit(k).Name>>))

\* C16 amended: the blocked-or-limited check and the inventory-allow check
\* are made on the asset of the listed item, the lock check on the occupant
\* and the last check on the slot; the occupant is removed if and only if
\* none fires, else it stays and the step records, under the description of
\* the listed asset, the fired blockers in that order
C16_BlockersOfTheNewAsset ==
    \A k \in DOMAIN workList :
        (JustVisited(k) /\ MeetsOccupant(k)) =>
            StepOutcome(k, FiredBlockers(k, <<workList[k].Group, workList[k].Name>>))

\* C16 happens: the step for an item whose asset passes every check has
\* removed an occupant that is blocked or limited
C16_Witness ==
    \E k \in DOMAIN workList :
        /\ JustVisited(k) /\ MeetsOccupant(k) /\ Cleared(k)
        /\ <<OccupantAtVisit(k).Group, OccupantAtVisit(k).Name>>
              \in permissions.blockedOrLimited

----------------------------------------------------------------------------
(* C17: the order of the steps of fortuneWheelEquip *)

\* the positions in events of the calls named op
Positions(op) == {n \in DOMAIN events : events[n].op = op}

\* the calls named op are made for list indices that increase
InListOrder(op) ==
    \A m, n \in Positions(op) : m < n => events[m].at < events[n].at

\* the predicate, removal and equip steps made so far follow the working list
PassesInListOrder ==
    /\ InListOrder("Equip")
    /\ InListOrder("InventoryRemove")
    /\ InListOrder("CharacterAppearanceSetItem")
    /\ \A m \in Positions("Equip"), n \in Positions("InventoryRemove") :
          m < n <=> events[m].at <= events[n].at

\* C17: the strip pass comes first and the pre-run callback second, every
\* removal of the clearing pass comes before the first equip, each pass
\* visits the items in the order of the working list, and the working list
\* is the list the caller gave (or the callback returned), never reordered
C17_StepsInFixedOrder ==
    Equipping =>
        /\ \A n \in Positions("strip") : n = 1
        /\ \A n \in Positions("preRunCallback") : n = 2 /\ Positions("strip") = {1}
        /\ \A m \in Positions("InventoryRemove") \cup Positions("Equip"),
              n \in Positions("CharacterAppearanceSetItem") : m < n
        /\ PassesInListOrder
        /\ workList = (IF PastPreRun THEN Returned ELSE itemList.items)
        /\ pc = "clear" => Positions("CharacterAppearanceSetItem") = {}

\* C17 happens: the transaction has ended after the strip, a removal for the
\* second item of the list and an equip for each of its two items
C17_Witness ==
    /\ Equipping /\ pc = "done" /\ Positions("strip") = {1}
    /\ Len(workList) >= 2
    /\ Cleared(2) /\ Equipped(1) /\ Equipped(2)
    /\ workList[1] # workList[2]

----------------------------------------------------------------------------
(* C18: items whose equip predicate returns false *)

\* the clearing pass has made its step for workList[k]
Visited(k) ==
    /\ Equipping /\ k \in DOMAIN workList
    /\ (pc = "clear" /\ idx > k) \/ pc \in {"equip", "done"}

\* the failure record holds nothing for workList[k]: no entry under its key,
\* or an entry that another item of the list is recorded under
NoEntryOfItsOwn(k) ==
    FailureKey(workList[k]) \in DOMAIN equipFailureRecord =>
        \E j \in DOMAIN workList :
            /\ j # k /\ FailureKey(workList[j]) = FailureKey(workList[k])
            /\ workList[j].Equip # "false" \/ ~Resolves(workList[j])

\* workList[k] is the only item of the list for its slot
OnlyItemOfSlot(k) ==
    \A j \in DOMAIN workList : j # k => workList[j].Group # workList[k].Group

\* the occupant of the slot of workList[k] is the one the strip pass left
OccupantKept(k) ==
    InventoryGet(appearance, workList[k].Group)
        = InventoryGet(afterStrip, workList[k].Group)

\* C18 as stated: an item whose equip predicate returns false is never cleared
\* for, never equipped and gets no failure entry; when it resolves and is the
\* only item of the list for its slot, the slot keeps the occupant the strip
\* pass left
C18_SuppressedItemUntouched ==
    \A k \in DOMAIN workList :
        (Visited(k) /\ workList[k].Equip = "false") =>
            /\ ~Cleared(k) /\ ~Equipped(k)
            /\ NoEntryOfItsOwn(k)
            /\ (Resolves(workList[k]) /\ OnlyItemOfSlot(k)) => OccupantKept(k)

\* C18 amended: the same of an item whose asset resolves and whose equip
\* predicate returns false; an item whose asset does not resolve is recorded
\* as "Unknown asset" whatever its equip predicate returns
C18_ResolvedSuppressedItemUntouched ==
    \A k \in DOMAIN workList :
        (Visited(k) /\ workList[k].Equip = "false") =>
            /\ ~Cleared(k) /\ ~Equipped(k)
            /\ Resolves(workList[k]) =>
                  /\ NoEntryOfItsOwn(k)
                  /\ OnlyItemOfSlot(k) => OccupantKept(k)
            /\ ~Resolves(workList[k]) =>
                  /\ workList[k].Name \in DOMAIN equipFailureRecord
                  /\ JustVisited(k) =>
                        equipFailureRecord[workList[k].Name] = <<"Unknown asset">>

\* C18 happens: the transaction has ended with an item equipped and with the
\* occupant still in the slot of a suppressed item that resolves and is the
\* only one for that slot
C18_Witness ==
    /\ Equipping /\ pc = "done"
    /\ \E k \in DOMAIN workList :
          /\ workList[k].Equip = "false" /\ Resolves(workList[k]) /\ OnlyItemOfSlot(k)
          /\ InventoryGet(afterStrip, workList[k].Group) # NoItem
          /\ canUnlock(InventoryGet(afterStrip, workList[k].Group))
          /\ ~OtherBlocker(k)
          /\ \E j \in DOMAIN workList : Equipped(j)

----------------------------------------------------------------------------
(* C19: termination of itemsArgSort *)

\* the groups of the graph's nodes
NodeGroups == {itemList.items[k].Group : k \in NodeItems(itemList.items)}

\* the listed item that owns the node of a group
NodeItem(group) ==
    itemList.items[CHOOSE k \in NodeItems(itemList.items) :
                       itemList.items[k].Group = group]

\* the node groups reached from the groups of S in n blocking steps or fewer
RECURSIVE BlockedWithin(_, _)
BlockedWithin(S, n) ==
    IF n = 0 THEN S
    ELSE BlockedWithin(S \cup {h \in NodeGroups :
                                 \E g \in S : h \in EffectiveBlock(NodeItem(g))},
                       n - 1)

\* the blocking relationships among the listed slots contain a cycle
CyclicBlocking ==
    \E g \in NodeGroups :
        \E h \in NodeGroups :
            /\ h \in EffectiveBlock(NodeItem(g))
            /\ g \in BlockedWithin({h}, Cardinality(NodeGroups))

\* C19: on a list whose assets all resolve, itemsArgSort returns a priority
\* for every node of the graph when the blocking relationships among the
\* listed slots are acyclic, and recurses without end when they contain a
\* cycle
C19_TerminatesIffAcyclic ==
    (call = "itemsArgSort" /\ pc # "start" /\ itemList.isArray /\ ~HasUnknownAsset) =>
        IF CyclicBlocking THEN pc = "overflow"
        ELSE pc = "done" /\ DOMAIN sortRecord = NodeGroups

----------------------------------------------------------------------------
(* C20: what characterStrip leaves *)

\* the predicate of a strip level on a worn item, flag being the
\* character's block-cosplay setting (true when it is not set)
LevelPredicate(level, flag, worn) ==
    LET removable == AssetGroup[worn.Group].AllowNone
        underwear == AssetGroup[worn.Group].Underwear
    IN
    CASE level = StripLevelNONE -> FALSE
      [] level = StripLevelCLOTHES -> removable /\ ~IsCosplay(worn) /\ ~underwear
      [] level = StripLevelUNDERWEAR -> removable /\ ~IsCosplay(worn)
      [] level = StripLevelCOSPLAY -> removable /\ (flag => ~IsCosplay(worn))
      [] level = StripLevelALL -> flag => (removable /\ ~IsCosplay(worn))

\* the worn item is one characterStrip is to remove
ToStrip(worn) ==
    /\ AssetGroup[worn.Group].AllowNone
    /\ AssetGroup[worn.Group].Category = "Appearance"
    /\ LevelPredicate(stripLevel, character.settings # "allow", worn)

Kept(worn) == ~ToStrip(worn)

----------------------------------------------------------------------------
(* C21: items that cannot be equipped on the character *)

\* the asset of workList[k] is blocked or limited for the character or fails
\* the inventory-allow check, or its slot is blocked
CannotBeEquipped(k) ==
    /\ Resolves(workList[k])
    /\ \/ <<workList[k].Group, workList[k].Name>> \in permissions.blockedOrLimited
       \/ <<workList[k].Group, workList[k].Name>> \in permissions.notAllowed
       \/ workList[k].Group \in permissions.groupBlocked

\* C21: the equip pass never applies an item whose asset is blocked or
\* limited for the character or fails the inventory-allow check, or whose
\* slot is blocked, whether the clearing pass found the slot occupied or empty
C21_NeverEquipsForbiddenItem ==
    Equipping =>
        \A k \in DOMAIN workList : CannotBeEquipped(k) => ~Equipped(k)

----------------------------------------------------------------------------
(* C22: the slots the clearing pass has emptied *)

\* C22: when the transaction ends, every item the clearing pass has removed an
\* occupant for has been equipped, and its slot is not empty
C22_ClearedSlotIsRefilled ==
    (Equipping /\ pc = "done") =>
        \A k \in DOMAIN workList :
            Cleared(k) =>
                /\ Equipped(k)
                /\ InventoryGet(appearance, workList[k].Group) # NoItem

====
